---------------------------- MODULE Spec2Model ----------------------------
(***************************************************************************)
(* A model of src/src/ingestion/save_corpus.py: the corpus downloader.     *)
(*                                                                         *)
(* The program is sequential.  main() resets the metadata log and calls    *)
(* download_one() for every URL of the input list; download_one() calls    *)
(* robust_get() (candidates x retries), classifies the response, writes    *)
(* the artifact(s), appends one metadata record and optionally renders a   *)
(* PDF.  The network, the file system, the HTML libraries and the Chrome   *)
(* binary are the environment: their outcomes are drawn from small sets.   *)
(*                                                                         *)
(* Strings are TLA+ strings (TLC evaluates Len, SubSeq and \o on them);    *)
(* bytes and decoded text are tuples of integers (byte values, code        *)
(* points).                                                                *)
(***************************************************************************)
EXTENDS Integers, Sequences, FiniteSets, TLC

VARIABLES
    urls,        \* the input list main() iterates (URLS)
    render_pdf,  \* args.pdf
    USE_MARKDOWNIFY, \* module global: markdownify could be imported
    pc,          \* position of the single thread of control
    idx,         \* 1-based index of the item the for loop of main() is at
    ok,          \* main(): ok
    fail,        \* main(): fail
    meta,        \* content of data/metadata.jsonl: a sequence of records
    files,       \* the files under data/: path -> bytes written
    candidates,  \* robust_get(): candidates
    ci,          \* robust_get(): index of `candidate` in candidates
    attempt,     \* robust_get(): attempt
    last_exc,    \* robust_get(): last_exc
    r,           \* download_one(): r, the response
    used_url,    \* download_one(): used_url
    ctype,       \* download_one(): ctype
    base,        \* download_one(): base
    out,         \* download_one(): out / out_md / out_html, the primary path
    title,       \* download_one(): title
    md_text,     \* download_one(): md_text
    exc,         \* the exception propagating out of download_one(), if any
    calls,       \* the URLs the current robust_get() has requested, in order
    last_outcome, \* what the most recent requests.get did: "ok" or the error
    sleeps,      \* log of the time.sleep calls of the current robust_get()
    processed,   \* the URLs download_one() was called with since main() began
    results,     \* what main() observed per item so far: "ok" or the error
    appended,    \* the records save_metadata() appended since main() began
    prev,        \* summary of the previous run of the program, if any
    xcall        \* a direct call of to_markdown_readability: arguments, result

vars == <<urls, render_pdf, USE_MARKDOWNIFY, pc, idx, ok, fail, meta, files,
          candidates, ci, attempt, last_exc, r, used_url, ctype, base, out, title,
          md_text, exc, calls, last_outcome, sleeps, processed, results, appended,
          prev, xcall>>

None == "<None>"

-----------------------------------------------------------------------------
(* Program constants.                                                      *)

MAX_RETRIES == 3
RETRY_BACKOFF == 2

HTML_DIR == "data/html"
PDF_DIR == "data/pdf"
MD_DIR == "data/md"

-----------------------------------------------------------------------------
(* Python str operations.                                                  *)

UpperChars == "ABCDEFGHIJKLMNOPQRSTUVWXYZ"
LowerChars == "abcdefghijklmnopqrstuvwxyz"
DigitChars == "0123456789"

CharAt(s, i) == SubSeq(s, i, i)

\* s[i:] for a 0-based i, as a 1-based suffix start
From(s, i) == SubSeq(s, i, Len(s))

\* sub in s
Contains(s, sub) ==
    \E i \in 1..(Len(s) - Len(sub) + 1) : SubSeq(s, i, i + Len(sub) - 1) = sub

\* s.find(sub) + 1, and 0 when sub does not occur
Find(s, sub) ==
    IF Contains(s, sub)
    THEN CHOOSE i \in 1..(Len(s) - Len(sub) + 1) :
            /\ SubSeq(s, i, i + Len(sub) - 1) = sub
            /\ \A j \in 1..(i - 1) : SubSeq(s, j, j + Len(sub) - 1) # sub
    ELSE 0

StartsWith(s, p) == Len(s) >= Len(p) /\ SubSeq(s, 1, Len(p)) = p

EndsWith(s, suf) ==
    Len(s) >= Len(suf) /\ SubSeq(s, Len(s) - Len(suf) + 1, Len(s)) = suf

LowerChar(c) ==
    IF Contains(UpperChars, c) THEN CharAt(LowerChars, Find(UpperChars, c)) ELSE c

LowerOf[s \in STRING] ==
    IF s = "" THEN "" ELSE LowerChar(CharAt(s, 1)) \o LowerOf[From(s, 2)]

\* s.lower()
Lower(s) == LowerOf[s]

\* s.replace(old, new), every occurrence, left to right
ReplaceIn[s \in STRING, old \in STRING, new \in STRING] ==
    IF Len(s) < Len(old) THEN s
    ELSE IF StartsWith(s, old) THEN new \o ReplaceIn[From(s, Len(old) + 1), old, new]
    ELSE CharAt(s, 1) \o ReplaceIn[From(s, 2), old, new]

Replace(s, old, new) == ReplaceIn[s, old, new]

\* s.rstrip(c) and s.strip(c) for a one-character c
RStripOf[s \in STRING, c \in STRING] ==
    IF EndsWith(s, c) THEN RStripOf[SubSeq(s, 1, Len(s) - 1), c] ELSE s

RStrip(s, c) == RStripOf[s, c]

LStripOf[s \in STRING, c \in STRING] ==
    IF StartsWith(s, c) THEN LStripOf[From(s, 2), c] ELSE s

LStrip(s, c) == LStripOf[s, c]

Strip(s, c) == LStrip(RStrip(s, c), c)

\* s.split(sep) for a one-character sep: a sequence of strings
SplitOf[s \in STRING, sep \in STRING] ==
    LET k == Find(s, sep)
    IN  IF k = 0 THEN <<s>>
        ELSE <<SubSeq(s, 1, k - 1)>> \o SplitOf[From(s, k + 1), sep]

Split(s, sep) == SplitOf[s, sep]

\* s.split(sep, 1)[0]
SplitHead(s, sep) ==
    LET k == Find(s, sep) IN IF k = 0 THEN s ELSE SubSeq(s, 1, k - 1)

\* sep.join(parts)
JoinOf[parts \in Seq(STRING), sep \in STRING] ==
    IF parts = <<>> THEN ""
    ELSE IF Len(parts) = 1 THEN parts[1]
    ELSE parts[1] \o sep \o JoinOf[Tail(parts), sep]

Join(parts, sep) == JoinOf[parts, sep]

SelectNonEmpty(parts) == SelectSeq(parts, LAMBDA p : p # "")

\* the index of the first character of s that is in the string stops, else Len(s)+1
FirstOfIn[s \in STRING, stops \in STRING, i \in Nat] ==
    IF i > Len(s) THEN Len(s) + 1
    ELSE IF Contains(stops, CharAt(s, i)) THEN i
    ELSE FirstOfIn[s, stops, i + 1]

FirstOf(s, stops, i) == FirstOfIn[s, stops, i]

-----------------------------------------------------------------------------
(* urllib.parse.urlparse, for absolute URLs scheme://netloc/path?query#frag *)

AfterScheme(url) ==
    LET k == Find(url, "://") IN IF k = 0 THEN url ELSE From(url, k + 3)

UrlNetloc(url) ==
    LET rest == AfterScheme(url)
    IN  SubSeq(rest, 1, FirstOf(rest, "/?#", 1) - 1)

UrlPath(url) ==
    LET rest == AfterScheme(url)
        a    == FirstOf(rest, "/?#", 1)
        tail == From(rest, a)
    IN  SubSeq(tail, 1, FirstOf(tail, "?#", 1) - 1)

-----------------------------------------------------------------------------
(* Identity/Naming: sha256_bytes, slugify, filename_from_url.              *)

\* hashlib.sha256(b).hexdigest(): an ideal (collision-free) hash of the bytes
sha256_bytes(b) == <<"sha256", b>>

\* python-slugify on ASCII input: lower-case, every run of characters other
\* than a-z, 0-9 and "-" becomes one "-", leading and trailing "-" dropped
SlugChar(c) ==
    IF Contains(LowerChars, c) \/ Contains(DigitChars, c) THEN c ELSE "-"

SlugMap[s \in STRING] ==
    IF s = "" THEN "" ELSE SlugChar(CharAt(s, 1)) \o SlugMap[From(s, 2)]

SquashDashes[s \in STRING] ==
    IF Len(s) < 2 THEN s
    ELSE IF SubSeq(s, 1, 2) = "--" THEN SquashDashes[From(s, 2)]
    ELSE CharAt(s, 1) \o SquashDashes[From(s, 2)]

slugify(s) == Strip(SquashDashes[SlugMap[Lower(s)]], "-")

SLUG_MAX == 120

filename_from_url(url) ==
    LET segs == Split(RStrip(UrlPath(url), "/"), "/")
        last == segs[Len(segs)]
        path == IF last = "" THEN "index" ELSE last
        host == Replace(UrlNetloc(url), "www.", "")
        full == slugify(host \o "-" \o path)
        cut  == SubSeq(full, 1, IF Len(full) < SLUG_MAX THEN Len(full) ELSE SLUG_MAX)
    IN  IF cut = "" THEN slugify(host) ELSE cut

-----------------------------------------------------------------------------
(* Fallback resolver: mdn_raw_fallback, pandas_alt_candidates and the      *)
(* candidate list robust_get builds from them.                             *)

\* parts.index("docs") + 1, and 0 when "docs" is no element (ValueError)
IndexOf(parts, x) ==
    IF \E i \in 1..Len(parts) : parts[i] = x
    THEN CHOOSE i \in 1..Len(parts) :
            parts[i] = x /\ \A j \in 1..(i - 1) : parts[j] # x
    ELSE 0

\* None, or the raw GitHub URL of the MDN page
mdn_raw_fallback(url) ==
    IF ~Contains(url, "developer.mozilla.org") THEN None
    ELSE LET parts == SelectNonEmpty(Split(UrlPath(url), "/"))
             i     == IndexOf(parts, "docs")
         IN  IF i = 0 THEN None
             ELSE LET rest == SubSeq(parts, i + 1, Len(parts))
                      low  == [k \in 1..Len(rest) |-> Replace(Lower(rest[k]), ".", "-")]
                  IN  "https://raw.githubusercontent.com/mdn/content/main/"
                          \o Join(<<"files">> \o low \o <<"index.md">>, "/")

pandas_alt_candidates(url) ==
    IF ~Contains(url, "pandas.pydata.org") THEN <<>>
    ELSE LET path == UrlPath(url)
             segs == Split(RStrip(path, "/"), "/")
             basename == segs[Len(segs)]
             stable ==
                 IF StartsWith(path, "/docs/user_guide/")
                 THEN LET tail == From(path, Len("/docs/user_guide/") + 1)
                      IN  << "https://pandas.pydata.org/pandas-docs/version/stable/user_guide/" \o tail,
                             "https://pandas.pydata.org/pandas-docs/stable/user_guide/" \o tail >>
                 ELSE <<>>
             raw ==
                 IF EndsWith(basename, ".html")
                 THEN << "https://raw.githubusercontent.com/pandas-dev/pandas/main/doc/source/user_guide/"
                             \o SubSeq(basename, 1, Len(basename) - 5) \o ".rst" >>
                 ELSE <<>>
         IN  stable \o raw

\* a variant of lines 159-168 that puts the URL asked for last
CandidatesUrlLast(url) == pandas_alt_candidates(url) \o <<url>>

\* robust_get, lines 159-168: the candidate list
Candidates(url) ==
    LET fb == IF Contains(url, "developer.mozilla.org") THEN mdn_raw_fallback(url) ELSE None
    IN  <<url>> \o pandas_alt_candidates(url) \o (IF fb # None THEN <<fb>> ELSE <<>>)

-----------------------------------------------------------------------------
(* Codecs.  Bytes are tuples of 0..255, text is a tuple of code points.    *)
(* bytes.decode(enc, errors) and str.encode(enc, errors="ignore") for the  *)
(* codecs utf-8, ascii and ISO-8859-1; any other name is a LookupError.    *)
(* The UTF-8 decoder covers one- and two-byte sequences: the byte values   *)
(* 224..244 (leads of longer sequences) are outside the modelled contents. *)

KnownEncodings == {"utf-8", "ascii", "ISO-8859-1"}

\* what an undecodable byte becomes: U+FFFD under errors="replace", nothing
\* under errors="ignore"
Bad(errors) == IF errors = "replace" THEN <<65533>> ELSE <<>>

RECURSIVE Utf8Decode(_, _)
Utf8Decode(b, errors) ==
    IF b = <<>> THEN <<>>
    ELSE IF b[1] < 128 THEN <<b[1]>> \o Utf8Decode(Tail(b), errors)
    ELSE IF b[1] \in 194..223 /\ Len(b) >= 2 /\ b[2] \in 128..191
         THEN <<(b[1] - 192) * 64 + (b[2] - 128)>> \o Utf8Decode(Tail(Tail(b)), errors)
    ELSE Bad(errors) \o Utf8Decode(Tail(b), errors)

RECURSIVE AsciiDecode(_, _)
AsciiDecode(b, errors) ==
    IF b = <<>> THEN <<>>
    ELSE (IF b[1] < 128 THEN <<b[1]>> ELSE Bad(errors)) \o AsciiDecode(Tail(b), errors)

Decode(b, enc, errors) ==
    CASE enc = "utf-8" -> Utf8Decode(b, errors)
      [] enc = "ascii" -> AsciiDecode(b, errors)
      [] enc = "ISO-8859-1" -> b

Utf8Char(c) ==
    IF c < 128 THEN <<c>>
    ELSE IF c < 2048 THEN <<192 + (c \div 64), 128 + (c % 64)>>
    ELSE <<224 + (c \div 4096), 128 + ((c \div 64) % 64), 128 + (c % 64)>>

RECURSIVE Encode(_, _)
Encode(t, enc) ==
    IF t = <<>> THEN <<>>
    ELSE (CASE enc = "utf-8" -> Utf8Char(t[1])
            [] enc = "ascii" -> IF t[1] < 128 THEN <<t[1]>> ELSE <<>>
            [] enc = "ISO-8859-1" -> IF t[1] < 256 THEN <<t[1]>> ELSE <<>>)
         \o Encode(Tail(t), enc)

-----------------------------------------------------------------------------
(* The response object of requests, as download_one reads it.              *)
(* A response is [ctype, encoding, apparent, content]: the raw             *)
(* Content-Type header (or None), r.encoding (or None), what               *)
(* r.apparent_encoding detects, and r.content.                             *)

\* r.text: content decoded with r.encoding, or with the detected encoding
\* when r.encoding is None; an unknown encoding name falls back to UTF-8
ResponseText(resp) ==
    LET e == IF resp.encoding = None THEN resp.apparent ELSE resp.encoding
    IN  IF e \in KnownEncodings THEN Decode(resp.content, e, "replace")
        ELSE Decode(resp.content, "utf-8", "replace")

\* line 237
CtypeOf(resp) ==
    Lower(SplitHead(IF resp.ctype = None THEN "" ELSE resp.ctype, ";"))

\* line 238
EncOf(resp) == IF resp.encoding = None THEN "utf-8" ELSE resp.encoding

-----------------------------------------------------------------------------
(* Dispatcher: the branch conditions of download_one.                      *)

\* a variant of line 245 that looks at the header alone
IsPdfByHeader(ct, used) == ct = "application/pdf"

\* line 245
IsPdf(ct, used) == ct = "application/pdf" \/ EndsWith(Lower(used), ".pdf")

\* line 257
IsText(ct, used) ==
    EndsWith(used, ".md") \/ Contains(ct, "text/markdown") \/ EndsWith(used, ".rst")

\* line 258
TextExt(used) == IF EndsWith(used, ".md") THEN ".md" ELSE ".rst"

\* a variant of line 264 that records every text source as markdown
TextKindMarkdown(ext) == "markdown"

\* line 264
TextKind(ext) == IF ext = ".md" THEN "markdown" ELSE "rst"

\* the kind of the branch download_one takes
ContentKind(ct, used) ==
    IF IsPdf(ct, used) THEN "pdf"
    ELSE IF IsText(ct, used) THEN TextKind(TextExt(used))
    ELSE "html"

\* the dict handed to save_metadata ("saved_at", a wall-clock time stamp, is
\* left out: no clock is modelled)
Record(url, used, path, kind, ttl, digest) ==
    [ url |-> url, downloaded_from |-> used, saved_as |-> path,
      content_type |-> kind, title |-> ttl, sha256 |-> digest,
      tags |-> <<"techdocs">> ]

-----------------------------------------------------------------------------
(* Extractor.  BeautifulSoup, readability and markdownify are libraries:   *)
(* what each call does on the given page is an input x of the call.        *)
(* A call's result is [exc, value]: exc is None when it returned.          *)

Returned(v) == [exc |-> None, value |-> v]
Raised(e) == [exc |-> e, value |-> <<>>]

\* soup: "raise" (the parser raised), "" (no <title>), or the title string
extract_title_from_html_str(soup) == IF soup = "raise" THEN "" ELSE soup

\* x.summary: "raise" | "empty" | "frag"   readability's Document.summary
\* x.conv:    RAISES | a text              mdify on the article fragment
\* x.walk:    RAISES | a text              the headings/paragraphs walk
\* x.full:    RAISES | a text              the full-page fallback
\* Texts are already stripped; <<>> is the empty text.
RAISES == <<-1>>

\* lines 108-115
FullPage(x) == IF x.full = RAISES THEN Raised("ParserError") ELSE Returned(x.full)

to_markdown_readability(enc_hint, use_markdownify, x) ==
    LET enc == IF enc_hint = None THEN "utf-8" ELSE enc_hint
    IN  IF enc \notin KnownEncodings THEN Raised("LookupError")
        ELSE IF x.summary # "frag" THEN FullPage(x)
        ELSE IF use_markdownify
             THEN (IF x.conv = RAISES THEN FullPage(x) ELSE Returned(x.conv))
        ELSE IF x.walk # RAISES /\ x.walk # <<>> THEN Returned(x.walk)
        ELSE FullPage(x)

-----------------------------------------------------------------------------
(* Optional PDF rendering.  x.chrome: find_chrome_binary found a binary;   *)
(* x.mkdir: "ok" | "OSError"; x.cmd1, x.cmd2: what subprocess.run did for  *)
(* each command line: "ok" | "CalledProcessError" | "OSError".             *)

render_pdf_with_chrome(x) ==
    IF ~x.chrome THEN Returned(FALSE)
    ELSE IF x.mkdir # "ok" THEN Raised("OSError: mkdir")
    ELSE IF x.cmd1 = "ok" THEN Returned(TRUE)
    ELSE IF x.cmd1 = "OSError" THEN Raised("OSError: exec")
    ELSE IF x.cmd2 = "ok" THEN Returned(TRUE)
    ELSE IF x.cmd2 = "OSError" THEN Raised("OSError: exec")
    ELSE Returned(FALSE)

-----------------------------------------------------------------------------
(* Inputs: the URLs, and what the environment may answer.                  *)

MaxItems == 2    \* longest input list

U_PYTHON == "https://docs.python.org/3/howto/logging.html"
U_PANDAS == "https://pandas.pydata.org/docs/user_guide/10min.html"
U_MDN    == "https://developer.mozilla.org/en-US/docs/Web/API/Fetch_API"
U_UPPER  == "https://example.org/files/Guide.PDF"

FetchErrors == {"ConnectionError", "HTTPError"}

\* page bytes: "A"; "A" + e-acute in UTF-8; "A" + a byte no UTF-8 text holds
B_ASCII == <<65>>
B_UTF8 == <<65, 195, 169>>
B_BAD == <<65, 255>>

\* extracted texts: "#T" (converter), "T" (walk), "TB" (full page)
T_CONV == <<35, 84>>
T_WALK == <<84>>
T_FULL == <<84, 66>>

\* what Chrome prints to the PDF file: "%PDF"
B_RENDERED == <<37, 80, 68, 70>>

Resp(c, e, a, b) == [ctype |-> c, encoding |-> e, apparent |-> a, content |-> b]

\* the local r while it is unbound
NoResponse == Resp(None, None, None, <<>>)

\* (Content-Type header, r.encoding): requests takes r.encoding from the
\* charset parameter, else ISO-8859-1 for text/*, else None
Headers == { <<None, None>>, <<"application/pdf", None>>,
             <<"Application/PDF; q=1", None>>,
             <<"text/markdown; charset=utf-8", "utf-8">>,
             <<"text/html; charset=utf-8", "utf-8">>,
             <<"text/html", "ISO-8859-1">>,
             <<"text/html; charset=x-bogus", "x-bogus">> }

\* (detected encoding, content)
Bodies == { <<"utf-8", B_ASCII>>, <<"utf-8", B_UTF8>>,
            <<"ISO-8859-1", B_UTF8>>, <<"ISO-8859-1", B_BAD>> }

AllResponses == { Resp(h[1], h[2], b[1], b[2]) : h \in Headers, b \in Bodies }

AllExtracts ==
    [ summary : {"raise", "empty", "frag"}, conv : {RAISES, <<>>, T_CONV},
      walk : {RAISES, <<>>, T_WALK}, full : {RAISES, <<>>, T_FULL} ]

AllRenders ==
    [ chrome : BOOLEAN, mkdir : {"ok", "OSError"},
      cmd1 : {"ok", "CalledProcessError", "OSError"},
      cmd2 : {"ok", "CalledProcessError", "OSError"} ]

\* The environment of a single download: every response, every library answer.
Rich ==
    [ responses |-> AllResponses, errors |-> {"HTTPError"}, io |-> {"ok", "OSError"},
      soups |-> {"raise", "", "Doc Title"}, extracts |-> AllExtracts,
      renders |-> AllRenders ]

\* The environment of a run over a list: one page, every way an item can end.
Lean ==
    [ responses |-> { Resp("text/html; charset=utf-8", "utf-8", "utf-8", B_ASCII),
                      Resp("application/pdf", None, "utf-8", B_ASCII) },
      errors |-> {"HTTPError"}, io |-> {"ok", "OSError"},
      soups |-> {"Doc Title"},
      extracts |-> { x \in AllExtracts : x.summary = "frag" /\ x.conv = T_CONV
                                         /\ x.walk = T_WALK /\ x.full = T_FULL },
      renders |-> AllRenders ]

RECURSIVE ListsUpTo(_, _)
ListsUpTo(S, n) ==
    IF n = 0 THEN {<<>>}
    ELSE LET shorter == ListsUpTo(S, n - 1)
         IN  shorter \cup { Append(l, u) : l \in { k \in shorter : Len(k) = n - 1 }, u \in S }

NoFiles == [p \in {} |-> <<>>]
NoRun == [ran |-> FALSE, results |-> <<>>, len |-> 0]

\* a variant of the write whose bytes have not reached the file system
PutDeferred(fs, path, b) == fs

\* open(path, "w") and write: the file at path now holds b
Put(fs, path, b) == [p \in (DOMAIN fs) \cup {path} |-> IF p = path THEN b ELSE fs[p]]

-----------------------------------------------------------------------------
(* The state before main() runs, for an input list and the two switches.   *)

\* no direct call of the extractor is under way
NoCall == [args |-> <<>>, res |-> <<>>]

\* the program before main() is entered
ProgramBoot(lists, converters) ==
    /\ urls \in lists
    /\ render_pdf \in BOOLEAN
    /\ USE_MARKDOWNIFY \in converters
    /\ pc = "start"
    /\ idx = 1
    /\ ok = 0
    /\ fail = 0
    /\ meta = <<>>
    /\ files = NoFiles
    /\ candidates = <<>>
    /\ ci = 1
    /\ attempt = 1
    /\ last_exc = None
    /\ r = NoResponse
    /\ used_url = None
    /\ ctype = None
    /\ base = None
    /\ out = None
    /\ title = ""
    /\ md_text = <<>>
    /\ exc = None
    /\ calls = <<>>
    /\ last_outcome = None
    /\ sleeps = <<>>
    /\ processed = <<>>
    /\ results = <<>>
    /\ appended = <<>>
    /\ prev = NoRun

Boot(lists, converters) == ProgramBoot(lists, converters) /\ xcall = NoCall

\* a list of up to MaxItems URLs, markdownify installed
Init == Boot(ListsUpTo({U_PYTHON, U_MDN}, MaxItems), {TRUE})

\* a single URL, markdownify installed or not
ItemInit == Boot({ <<u>> : u \in {U_PYTHON, U_PANDAS, U_MDN, U_UPPER} }, BOOLEAN)

\* a list of up to MaxItems URLs that have a fallback, markdownify installed
RerunInit == Boot(ListsUpTo({U_MDN}, MaxItems), {TRUE})

-----------------------------------------------------------------------------
(* main(), lines 312-318: bootstrap, reset of the log, counters.           *)

Url == urls[idx]

\* an exception leaves download_one: control is at main's except clause
Raise(e) == exc' = e /\ pc' = "raised"

\* a variant of line 316 that leaves the log as it is
ResetMetaKeep(log) == log

\* line 316: META.write_text("")
ResetMeta(log) == <<>>

MainStart ==
    /\ pc = "start"
    /\ meta' = ResetMeta(meta)
    /\ appended' = <<>>
    /\ ok' = 0
    /\ fail' = 0
    /\ idx' = 1
    /\ processed' = <<>>
    /\ results' = <<>>
    /\ pc' = "loop"
    /\ UNCHANGED <<xcall, urls, render_pdf, USE_MARKDOWNIFY, files, candidates, ci, attempt,
                   last_exc, r, used_url, ctype, base, out, title, md_text, exc, calls,
                   last_outcome, sleeps, prev>>

(* main() lines 319-321 and robust_get lines 158-170: the next item is     *)
(* taken, download_one calls robust_get, which builds the candidate list.  *)
CallDownloadOne ==
    /\ pc = "loop"
    /\ idx <= Len(urls)
    /\ candidates' = Candidates(Url)
    /\ ci' = 1
    /\ attempt' = 1
    /\ last_exc' = None
    /\ calls' = <<>>
    /\ last_outcome' = None
    /\ sleeps' = <<>>
    /\ processed' = Append(processed, Url)
    /\ pc' = "get"
    /\ UNCHANGED <<xcall, urls, render_pdf, USE_MARKDOWNIFY, idx, ok, fail, meta, files, r,
                   used_url, ctype, base, out, title, md_text, exc, results, appended,
                   prev>>

\* line 319 with the list exhausted, lines 327-329: the summary is printed
MainFinish ==
    /\ pc = "loop"
    /\ idx > Len(urls)
    /\ pc' = "done"
    /\ UNCHANGED <<xcall, processed, urls, render_pdf, USE_MARKDOWNIFY, idx, ok, fail, meta, files,
                   candidates, ci, attempt, last_exc, r, used_url, ctype, base, out,
                   title, md_text, exc, calls, last_outcome, sleeps, results, appended,
                   prev>>

-----------------------------------------------------------------------------
(* robust_get, lines 170-183: one requests.get per step.                   *)

\* a variant of line 177 that returns the URL asked for
ServedOriginal(cands, i) == cands[1]

\* line 177: the URL returned with the response
Served(cands, i) == cands[i]

\* a variant of line 179 that keeps the first error
LastExcFirst(old, e) == IF old = None THEN e ELSE old

\* line 179
LastExc(old, e) == e

\* a variant of line 171 with one attempt less per candidate
MoreAttemptsButOne(a) == a < MAX_RETRIES - 1

\* line 171: range(1, MAX_RETRIES + 1) has another attempt after attempt a
MoreAttempts(a) == a < MAX_RETRIES

\* a variant of line 180 that sleeps after every failure
SleepsAlways(a) == TRUE

\* line 180
SleepsAfter(a) == a < MAX_RETRIES

\* line 181
Backoff(a) == RETRY_BACKOFF ^ a

\* lines 173-177: the request succeeds, robust_get returns (r, candidate)
GetOk(resp) ==
    /\ pc = "get"
    /\ calls' = Append(calls, candidates[ci])
    /\ last_outcome' = "ok"
    /\ r' = resp
    /\ used_url' = Served(candidates, ci)
    /\ pc' = "got"
    /\ UNCHANGED <<xcall, processed, urls, render_pdf, USE_MARKDOWNIFY, idx, ok, fail, meta, files,
                   candidates, ci, attempt, last_exc, ctype, base, out, title, md_text,
                   exc, sleeps, results, appended, prev>>

\* lines 178-183: the request or raise_for_status raises e
GetFail(e) ==
    /\ pc = "get"
    /\ calls' = Append(calls, candidates[ci])
    /\ last_outcome' = e
    /\ last_exc' = LastExc(last_exc, e)
    /\ sleeps' = IF SleepsAfter(attempt) THEN Append(sleeps, Backoff(attempt)) ELSE sleeps
    /\ IF MoreAttempts(attempt)
       THEN attempt' = attempt + 1 /\ UNCHANGED <<ci, exc, pc>>
       ELSE IF ci < Len(candidates)
            THEN ci' = ci + 1 /\ attempt' = 1 /\ UNCHANGED <<exc, pc>>
            ELSE Raise(last_exc') /\ UNCHANGED <<ci, attempt>>
    /\ UNCHANGED <<xcall, processed, urls, render_pdf, USE_MARKDOWNIFY, idx, ok, fail, meta, files,
                   candidates, r, used_url, ctype, base, out, title, md_text, results,
                   appended, prev>>

-----------------------------------------------------------------------------
(* download_one, lines 236-305.                                            *)

Enc == EncOf(r)

\* the frame of robust_get is gone once it has returned or raised
DropGetFrame ==
    /\ candidates' = <<>>
    /\ ci' = 1
    /\ attempt' = 1
    /\ last_exc' = None
    /\ calls' = <<>>
    /\ last_outcome' = None
    /\ sleeps' = <<>>

\* the frame of download_one is gone once it has returned or raised
DropItemFrame ==
    /\ r' = NoResponse
    /\ used_url' = None
    /\ ctype' = None
    /\ base' = None
    /\ out' = None
    /\ title' = ""
    /\ md_text' = <<>>

\* lines 236-242: download_one binds the result and its other locals
BindResponse ==
    /\ pc = "got"
    /\ ctype' = CtypeOf(r)
    /\ base' = filename_from_url(Url)
    /\ DropGetFrame
    /\ pc' = "dispatch"
    /\ UNCHANGED <<xcall, processed, urls, render_pdf, USE_MARKDOWNIFY, idx, ok, fail, meta, files, r,
                   used_url, out, title, md_text, exc, results, appended, prev>>

\* pathlib: directory / (base + ext)
PathIn(dir, name, ext) == dir \o "/" \o name \o ext

\* lines 245-247: the response is a PDF, its bytes are written
WritePdf(io) ==
    /\ pc = "dispatch"
    /\ IsPdf(ctype, used_url)
    /\ out' = PathIn(PDF_DIR, base, ".pdf")
    /\ IF io = "ok"
       THEN files' = Put(files, out', r.content) /\ pc' = "save_pdf" /\ UNCHANGED exc
       ELSE Raise("OSError: write") /\ UNCHANGED files
    /\ UNCHANGED <<xcall, processed, urls, render_pdf, USE_MARKDOWNIFY, idx, ok, fail, meta, candidates,
                   ci, attempt, last_exc, r, used_url, ctype, base, title, md_text,
                   calls, last_outcome, sleeps, results, appended, prev>>

\* lines 257-261: the response is Markdown or reST source, r.text is written
WriteText(io) ==
    /\ pc = "dispatch"
    /\ ~IsPdf(ctype, used_url)
    /\ IsText(ctype, used_url)
    /\ out' = PathIn(MD_DIR, base, TextExt(used_url))
    /\ IF Enc \notin KnownEncodings
       THEN \* open() creates the file, then the codec lookup fails
            files' = Put(files, out', <<>>) /\ Raise("LookupError")
       ELSE IF io = "ok"
       THEN files' = Put(files, out', Encode(ResponseText(r), Enc))
            /\ pc' = "save_text" /\ UNCHANGED exc
       ELSE Raise("OSError: write") /\ UNCHANGED files
    /\ UNCHANGED <<xcall, processed, urls, render_pdf, USE_MARKDOWNIFY, idx, ok, fail, meta, candidates,
                   ci, attempt, last_exc, r, used_url, ctype, base, title, md_text,
                   calls, last_outcome, sleeps, results, appended, prev>>

\* lines 273-274: anything else is HTML, its bytes are written
WriteHtml(io) ==
    /\ pc = "dispatch"
    /\ ~IsPdf(ctype, used_url)
    /\ ~IsText(ctype, used_url)
    /\ out' = PathIn(HTML_DIR, base, ".html")
    /\ IF io = "ok"
       THEN files' = Put(files, out', r.content) /\ pc' = "title" /\ UNCHANGED exc
       ELSE Raise("OSError: write") /\ UNCHANGED files
    /\ UNCHANGED <<xcall, processed, urls, render_pdf, USE_MARKDOWNIFY, idx, ok, fail, meta, candidates,
                   ci, attempt, last_exc, r, used_url, ctype, base, title, md_text,
                   calls, last_outcome, sleeps, results, appended, prev>>

\* lines 276-277: the bytes are decoded, the title extracted or derived
ExtractTitle(soup) ==
    /\ pc = "title"
    /\ IF Enc \notin KnownEncodings
       THEN Raise("LookupError") /\ UNCHANGED title
       ELSE LET t == extract_title_from_html_str(soup)
            IN  /\ title' = IF t # "" THEN t ELSE Replace(base, "-", " ")
                /\ pc' = "extract"
                /\ UNCHANGED exc
    /\ UNCHANGED <<xcall, processed, urls, render_pdf, USE_MARKDOWNIFY, idx, ok, fail, meta, files,
                   candidates, ci, attempt, last_exc, r, used_url, ctype, base, out,
                   md_text, calls, last_outcome, sleeps, results, appended, prev>>

\* lines 279-287: the companion text is extracted and, if not empty, written
ExtractCompanion(x, io) ==
    /\ pc = "extract"
    /\ LET res == to_markdown_readability(Enc, USE_MARKDOWNIFY, x)
           md  == IF res.exc # None THEN <<>> ELSE res.value
       IN  /\ md_text' = md
           /\ IF md = <<>>
              THEN pc' = "save_html" /\ UNCHANGED <<files, exc>>
              ELSE IF io = "ok"
              THEN files' = Put(files, PathIn(MD_DIR, base, ".md"), Encode(md, "utf-8"))
                   /\ pc' = "save_html" /\ UNCHANGED exc
              ELSE Raise("OSError: write") /\ UNCHANGED files
    /\ UNCHANGED <<xcall, processed, urls, render_pdf, USE_MARKDOWNIFY, idx, ok, fail, meta, candidates,
                   ci, attempt, last_exc, r, used_url, ctype, base, out, title, calls,
                   last_outcome, sleeps, results, appended, prev>>

\* a variant of save_metadata that opens the log with "w"
save_metadata_truncating(log, record) == <<record>>

\* save_metadata, lines 117-119: one line is appended to the log
save_metadata(log, record) == Append(log, record)

\* the record is appended, or the append fails
Saving(io, rec, next) ==
    /\ IF io = "ok"
       THEN /\ meta' = save_metadata(meta, rec)
            /\ appended' = Append(appended, rec)
            /\ pc' = next
            /\ UNCHANGED <<exc, title>>
       ELSE Raise("OSError: write") /\ UNCHANGED <<meta, appended, title>>
    /\ UNCHANGED <<xcall, processed, urls, render_pdf, USE_MARKDOWNIFY, idx, ok, fail, files, candidates,
                   ci, attempt, last_exc, r, used_url, ctype, base, out, md_text, calls,
                   last_outcome, sleeps, results, prev>>

\* lines 248-254
SavePdf(io) ==
    /\ pc = "save_pdf"
    /\ Saving(io, Record(Url, used_url, out, "pdf", "", sha256_bytes(r.content)),
              "returned")

\* lines 262-270
SaveText(io) ==
    /\ pc = "save_text"
    /\ Saving(io, Record(Url, used_url, out, TextKind(TextExt(used_url)),
                         Replace(base, "-", " "), sha256_bytes(r.content)),
              "returned")

\* lines 289-298: after the record the html branch may render a PDF
SaveHtml(io) ==
    /\ pc = "save_html"
    /\ Saving(io, Record(Url, used_url, out, "html", title, sha256_bytes(r.content)),
              IF render_pdf THEN "render" ELSE "returned")

\* lines 298-305: render_pdf_with_chrome(used_url, out_pdf)
RenderPdf(x) ==
    /\ pc = "render"
    /\ LET res == render_pdf_with_chrome(x)
       IN  IF res.exc # None
           THEN Raise(res.exc) /\ UNCHANGED files
           ELSE /\ files' = IF res.value
                            THEN Put(files, PathIn(PDF_DIR, base, ".pdf"), B_RENDERED)
                            ELSE files
                /\ pc' = "returned"
                /\ UNCHANGED exc
    /\ UNCHANGED <<xcall, processed, urls, render_pdf, USE_MARKDOWNIFY, idx, ok, fail, meta, candidates,
                   ci, attempt, last_exc, r, used_url, ctype, base, out, title, md_text,
                   calls, last_outcome, sleeps, results, appended, prev>>

-----------------------------------------------------------------------------
(* main(), lines 320-325: the outcome of download_one is counted.          *)

\* line 322
MainOk ==
    /\ pc = "returned"
    /\ ok' = ok + 1
    /\ results' = Append(results, "ok")
    /\ idx' = idx + 1
    /\ pc' = "loop"
    /\ DropItemFrame
    /\ UNCHANGED <<xcall, processed, urls, render_pdf, USE_MARKDOWNIFY, fail, meta, files, candidates, ci,
                   attempt, last_exc, exc, calls, last_outcome, sleeps, appended, prev>>

\* a variant of lines 323-325 that lets the error end the run
MainExceptCrash ==
    /\ pc = "raised"
    /\ pc' = "crashed"
    /\ UNCHANGED <<xcall, urls, render_pdf, USE_MARKDOWNIFY, idx, ok, fail, meta, files,
                   candidates, ci, attempt, last_exc, r, used_url, ctype, base, out,
                   title, md_text, exc, calls, last_outcome, sleeps, processed, results,
                   appended, prev>>

\* lines 323-325
MainExcept ==
    /\ pc = "raised"
    /\ fail' = fail + 1
    /\ results' = Append(results, exc)
    /\ exc' = None
    /\ idx' = idx + 1
    /\ pc' = "loop"
    /\ DropGetFrame
    /\ DropItemFrame
    /\ UNCHANGED <<xcall, processed, urls, render_pdf, USE_MARKDOWNIFY, ok, meta, files, appended, prev>>

\* the program is started again on the same list: the process state is new,
\* the files and the log on disk are the ones the previous run left
Rerun ==
    /\ pc = "done"
    /\ prev' = [ran |-> TRUE, results |-> results, len |-> Len(meta)]
    /\ pc' = "start"
    /\ idx' = 1 /\ ok' = 0 /\ fail' = 0 /\ results' = <<>> /\ appended' = <<>>
    /\ processed' = <<>>
    /\ UNCHANGED <<xcall, urls, render_pdf, USE_MARKDOWNIFY, meta, files, candidates, ci,
                   attempt, last_exc, r, used_url, ctype, base, out, title, md_text,
                   exc, calls, last_outcome, sleeps>>

-----------------------------------------------------------------------------
(* Specifications.                                                         *)

Step(E) ==
    \/ MainStart
    \/ CallDownloadOne
    \/ MainFinish
    \/ \E resp \in E.responses : GetOk(resp)
    \/ \E e \in E.errors : GetFail(e)
    \/ BindResponse
    \/ \E io \in E.io : WritePdf(io)
    \/ \E io \in E.io : WriteText(io)
    \/ \E io \in E.io : WriteHtml(io)
    \/ \E soup \in E.soups : ExtractTitle(soup)
    \/ \E x \in E.extracts, io \in E.io : ExtractCompanion(x, io)
    \/ \E io \in E.io : SavePdf(io)
    \/ \E io \in E.io : SaveText(io)
    \/ \E io \in E.io : SaveHtml(io)
    \/ \E x \in E.renders : RenderPdf(x)
    \/ MainOk
    \/ MainExcept

\* one run of the program over a list of up to MaxItems URLs
Next == Step(Lean)
Spec == Init /\ [][Next]_vars

\* the same, every call into the environment returning
FairSpec == Spec /\ WF_vars(Next)

\* one run over a single URL, with every answer of the environment
ItemNext == Step(Rich)
ItemSpec == ItemInit /\ [][ItemNext]_vars

\* The environment of repeated runs: one page and one PDF, an item is
\* fetched or not, rendered or not, or fails in the renderer.
Bare ==
    [ responses |-> Lean.responses, errors |-> {"HTTPError"}, io |-> {"ok"},
      soups |-> {"Doc Title"}, extracts |-> Lean.extracts,
      renders |-> { x \in AllRenders : x.mkdir = "ok" /\ x.cmd2 = "ok"
                                        /\ x.cmd1 \in {"ok", "OSError"} } ]

\* The environment of a single fetch: the page, either error per attempt.
Fetching == [Lean EXCEPT !.errors = FetchErrors]

\* the program run again and again over the same list
RerunNext == Step(Bare) \/ Rerun
RerunSpec == RerunInit /\ [][RerunNext]_vars

\* one run over a single URL, every attempt failing in either way or not
FetchNext == Step(Fetching)
FetchSpec == ItemInit /\ [][FetchNext]_vars

-----------------------------------------------------------------------------
(* Properties of the run: main().                                          *)

Last(seq) == seq[Len(seq)]

\* the number of indices of seq whose element is in S
CountIn(seq, S) == Cardinality({ i \in 1..Len(seq) : seq[i] \in S })

\* the elements of urls at the indices whose result is in S, in order
RECURSIVE Picked(_, _, _)
Picked(list, res, S) ==
    IF list = <<>> \/ res = <<>> THEN <<>>
    ELSE (IF res[1] \in S THEN <<list[1]>> ELSE <<>>) \o Picked(Tail(list), Tail(res), S)

RenderErrors == {"OSError: mkdir", "OSError: exec"}

\* C1: whatever happens to the single items (success, fetch exhaustion, an
\* error while writing, decoding or rendering), the run reaches its summary,
\* having called download_one once per item in input order, and there
\* okCount + failCount is the number of items.
C1_RunCompletes ==
    <>(pc = "done" /\ processed = urls /\ ok + fail = Len(urls))

\* a run over two items that ended: the first item failed, and not in the
\* fetch, and the second one was processed
C1_Witness ==
    /\ pc = "done"
    /\ Len(urls) = 2
    /\ results[1] \in RenderErrors \cup {"OSError: write"}
    /\ results[2] = "ok"

\* C2: at the end of a run in which k items exhausted every candidate and
\* every retry and all other items were processed without error, the log
\* holds one record for each of the other items, in input order, and none
\* for the k items; failCount = k, okCount = n - k; no item was processed
\* twice.
C2_OneRecordPerSuccess ==
    (pc = "done" /\ \A i \in 1..Len(results) : results[i] \in FetchErrors \cup {"ok"})
        => LET k == CountIn(results, FetchErrors)
           IN  /\ Len(meta) = Len(urls) - k
               /\ fail = k
               /\ ok = Len(urls) - k
               /\ [i \in 1..Len(meta) |-> meta[i].url] = Picked(urls, results, {"ok"})
               /\ processed = urls

\* two items, the first exhausted its candidates, the second was saved
C2_Witness ==
    /\ pc = "done"
    /\ Len(urls) = 2
    /\ results[1] \in FetchErrors
    /\ results[2] = "ok"
    /\ Len(meta) = 1

-----------------------------------------------------------------------------
(* Properties of the fetcher: robust_get.                                  *)

\* the attempts (a-1)*MAX_RETRIES+1 .. a*MAX_RETRIES went to candidate a
FullyTried(a) ==
    \A k \in ((a - 1) * MAX_RETRIES + 1)..(a * MAX_RETRIES) :
        k <= Len(calls) /\ calls[k] = candidates[a]

\* C3: when robust_get returns after its first N candidates failed on every
\* attempt, the URL it returns with the response is candidate N+1, the one
\* the successful request went to, and each of the N failing candidates
\* was requested exactly MAX_RETRIES times.
C3_FallbackServed ==
    pc = "got"
        => /\ used_url = candidates[ci]
           /\ used_url = Last(calls)
           /\ \A a \in 1..(ci - 1) : FullyTried(a)
           /\ Len(calls) = (ci - 1) * MAX_RETRIES + attempt

\* the pandas page served by its third fallback after nine failures
C3_Witness ==
    /\ pc = "got"
    /\ Len(candidates) = 4
    /\ ci = 4
    /\ used_url = candidates[4]
    /\ Len(calls) = 3 * MAX_RETRIES + 1

\* C4: when every attempt on every candidate failed, robust_get has made
\* exactly len(candidates) * MAX_RETRIES requests, MAX_RETRIES on each
\* candidate in order, and the error it raises is the one of the last
\* attempt.
C4_Exhaustion ==
    (pc = "raised" /\ calls # <<>>)
        => /\ Len(calls) = Len(candidates) * MAX_RETRIES
           /\ \A a \in 1..Len(candidates) : FullyTried(a)
           /\ exc = last_outcome
           /\ exc \in FetchErrors

\* the pandas page with its four candidates exhausted: twelve requests,
\* eight sleeps, the error of the last request raised
C4_Witness ==
    /\ pc = "raised"
    /\ Len(candidates) = 4
    /\ Len(calls) = 4 * MAX_RETRIES
    /\ exc = "HTTPError"
    /\ last_outcome = "HTTPError"
    /\ Len(sleeps) = 4 * (MAX_RETRIES - 1)

-----------------------------------------------------------------------------
(* Properties of the dispatcher and of the record: download_one.           *)

\* download_one has returned: its record is the last one of the log
Emitted == pc = "returned" /\ meta # <<>>

Kinds == {"pdf", "markdown", "rst", "html"}

\* the rules of the decision order, on the lower-cased media type and the
\* served URL
PdfRule == ctype = "application/pdf" \/ EndsWith(used_url, ".pdf")
PdfRuleAnyCase == ctype = "application/pdf" \/ EndsWith(Lower(used_url), ".pdf")
MarkdownRule == EndsWith(used_url, ".md") \/ Contains(ctype, "text/markdown")
RstRule == EndsWith(used_url, ".rst")

\* C5: a response that is not a pdf and whose served URL ends in ".md" or
\* whose declared content type contains "text/markdown" gets a record of
\* kind markdown and its text is saved under the extension ".md".
C5_MarkdownRule ==
    (Emitted /\ ~PdfRuleAnyCase /\ MarkdownRule)
        => /\ Last(meta).content_type = "markdown"
           /\ EndsWith(Last(meta).saved_as, ".md")

\* C6 as stated: application/pdf is pdf whatever the suffix, a served URL
\* ending in ".pdf" is pdf, ".rst" with no earlier rule is rst, every other
\* response is html, and the kind is one of the four.
C6_DecisionOrderAsStated ==
    Emitted
        => /\ ctype = "application/pdf" => Last(meta).content_type = "pdf"
           /\ EndsWith(used_url, ".pdf") => Last(meta).content_type = "pdf"
           /\ (RstRule /\ ~PdfRule /\ ~MarkdownRule) => Last(meta).content_type = "rst"
           /\ (~PdfRule /\ ~MarkdownRule /\ ~RstRule) => Last(meta).content_type = "html"
           /\ Last(meta).content_type \in Kinds

\* C6: the decision order with the ".pdf" suffix compared without regard
\* to case: application/pdf is pdf whatever the suffix of the served URL, a
\* served URL whose lower-cased form ends in ".pdf" is pdf whatever the
\* content type, ".rst" with no earlier rule matching is rst, a response
\* that matches no rule is html, and the kind is one of the four.
C6_DecisionOrder ==
    Emitted
        => /\ ctype = "application/pdf" => Last(meta).content_type = "pdf"
           /\ EndsWith(Lower(used_url), ".pdf") => Last(meta).content_type = "pdf"
           /\ (RstRule /\ ~PdfRuleAnyCase /\ ~MarkdownRule)
                  => Last(meta).content_type = "rst"
           /\ (~PdfRuleAnyCase /\ ~MarkdownRule /\ ~RstRule)
                  => Last(meta).content_type = "html"
           /\ Last(meta).content_type \in Kinds

\* a page served as text/html from a URL ending in ".PDF" was saved as pdf
C6_Witness ==
    /\ Emitted
    /\ EndsWith(used_url, ".PDF")
    /\ ctype = "text/html"
    /\ Last(meta).content_type = "pdf"
    /\ EndsWith(Last(meta).saved_as, ".pdf")

\* C7: the digest of a record is the digest of the bytes of the file the
\* record names, in every branch.
C7_DigestOfSavedBytes ==
    Emitted
        => /\ Last(meta).saved_as \in DOMAIN files
           /\ Last(meta).sha256 = sha256_bytes(files[Last(meta).saved_as])

\* C8: no failure of the renderer leaves download_one as an exception, and
\* at the end of the run the log has as many records as okCount.
C8_RenderNeverFails ==
    /\ pc = "raised" => exc \notin RenderErrors
    /\ pc = "done" => Len(meta) = ok

\* the item went through the html branch and download_one has ended
HtmlItemEnded ==
    /\ pc \in {"returned", "raised"}
    /\ calls = <<>>
    /\ ~IsPdf(ctype, used_url)
    /\ ~IsText(ctype, used_url)

\* C9: in the html branch, unless writing a file or the log or rendering
\* fails, the page's bytes are saved and one record of kind html is
\* appended, whatever happens in decoding, title extraction and companion
\* generation.
C9_HtmlAlwaysRecorded ==
    (HtmlItemEnded /\ exc \notin RenderErrors \cup {"OSError: write"})
        => /\ out \in DOMAIN files
           /\ files[out] = r.content
           /\ Len(meta) = 1
           /\ meta[1].content_type = "html"
           /\ meta[1].saved_as = out

-----------------------------------------------------------------------------
(* Properties of repeated runs.                                            *)

\* C10: from the reset at the start of a run on, the log holds the records
\* of this run and no others; a run that repeats the outcomes of the run
\* before it ends with a log of the same length.
C10_LogIsPerRun ==
    /\ pc # "start" => meta = appended
    /\ (pc = "done" /\ prev.ran /\ results = prev.results) => Len(meta) = prev.len

\* a second run over two items ended as the first one, with one record
C10_Witness ==
    /\ pc = "done"
    /\ prev.ran
    /\ prev.len = 1
    /\ Len(results) = 2
    /\ results = prev.results
    /\ Len(meta) = 1

-----------------------------------------------------------------------------
(* The corpus: the list main() iterates, every page fetched as HTML.       *)

URLS ==
    << "https://docs.python.org/3/tutorial/datastructures.html",
       "https://docs.python.org/3/howto/logging.html",
       "https://docs.python.org/3/howto/argparse.html",
       "https://peps.python.org/pep-0008/",
       "https://docs.python.org/3/reference/datamodel.html",
       "https://pandas.pydata.org/docs/user_guide/10min.html",
       "https://pandas.pydata.org/docs/user_guide/merging.html",
       "https://pandas.pydata.org/docs/user_guide/groupby.html",
       "https://numpy.org/doc/stable/user/absolute_beginners.html",
       "https://numpy.org/doc/stable/user/basics.indexing.html",
       "https://developer.mozilla.org/en-US/docs/Web/JavaScript/Reference/Global_Objects/Promise",
       "https://developer.mozilla.org/en-US/docs/Web/API/Fetch_API",
       "https://developer.mozilla.org/en-US/docs/Web/JavaScript/Reference/Global_Objects/Array/map",
       "https://developer.mozilla.org/en-US/docs/Web/JavaScript/Reference/Global_Objects/Map",
       "https://www.typescriptlang.org/docs/handbook/2/generics.html",
       "https://nodejs.org/api/fs.html",
       "https://docs.docker.com/reference/dockerfile/",
       "https://kubernetes.io/docs/concepts/workloads/controllers/deployment/",
       "https://docs.github.com/actions/reference/workflow-syntax-for-github-actions",
       "https://git-scm.com/book/en/v2" >>

\* every request is answered at once with an HTML page; Chrome is absent
HtmlPage == Resp("text/html; charset=utf-8", "utf-8", "utf-8", B_ASCII)
NoChrome == { x \in AllRenders : ~x.chrome /\ x.mkdir = "ok" /\ x.cmd1 = "ok" /\ x.cmd2 = "ok" }

CorpusInit == Boot({URLS}, BOOLEAN)

CorpusNext ==
    \/ MainStart
    \/ CallDownloadOne
    \/ MainFinish
    \/ GetOk(HtmlPage)
    \/ BindResponse
    \/ WriteHtml("ok")
    \/ ExtractTitle("Doc Title")
    \/ \E x \in Lean.extracts : ExtractCompanion(x, "ok")
    \/ SaveHtml("ok")
    \/ \E x \in NoChrome : RenderPdf(x)
    \/ MainOk

\* one run of the program over its own list, all pages served as HTML
CorpusSpec == CorpusInit /\ [][CorpusNext]_vars

HtmlFiles == { f \in DOMAIN files : StartsWith(f, HTML_DIR \o "/") }

\* C11: after a run over URLS in which every item was fetched as HTML, no
\* two records name the same file and the HTML directory holds as many
\* files as the log holds html records.
C11_NoCollision ==
    (pc = "done" /\ urls = URLS /\ ok = Len(URLS))
        => /\ \A i, j \in 1..Len(meta) : i # j => meta[i].saved_as # meta[j].saved_as
           /\ Cardinality(HtmlFiles) = Len(meta)

-----------------------------------------------------------------------------
(* The extractor called directly: to_markdown_readability(html_bytes,      *)
(* encoding_hint) with every answer of the libraries.                      *)

\* encoding_hint
Hints == {None, "utf-8", "ascii", "ISO-8859-1", "x-bogus"}

ExtractorInit ==
    /\ ProgramBoot({<<>>}, BOOLEAN)
    /\ xcall \in { [args |-> <<hint, x>>, res |-> <<>>] : hint \in Hints, x \in AllExtracts }

\* the call is made: it returns a text or an exception leaves it
CallExtractor ==
    /\ xcall.res = <<>>
    /\ xcall' = [xcall EXCEPT
                   !.res = <<to_markdown_readability(xcall.args[1], USE_MARKDOWNIFY,
                                                     xcall.args[2])>>]
    /\ UNCHANGED <<urls, render_pdf, USE_MARKDOWNIFY, pc, idx, ok, fail, meta, files,
                   candidates, ci, attempt, last_exc, r, used_url, ctype, base, out,
                   title, md_text, exc, calls, last_outcome, sleeps, processed, results,
                   appended, prev>>

ExtractorNext == CallExtractor
ExtractorSpec == ExtractorInit /\ [][ExtractorNext]_vars

\* the direct call has ended
Called == xcall.res # <<>>

\* C12: to_markdown_readability never raises: whatever the page, the
\* encoding hint and the failures inside the tiers (decoding, readability,
\* the converter, the structural walk, the full-page fallback), the call
\* returns a text.
C12_ExtractorNeverRaises ==
    Called => xcall.res[1].exc = None

-----------------------------------------------------------------------------
(* The extractor on documents.  A document is the sequence of its elements *)
(* in document order, each a tag name and its flattened, stripped text;    *)
(* readability's summary of such a document holds the same elements.       *)
(* Text is a tuple of code points: 10 newline, 32 space, 35 "#", 42 "*".   *)

Elem(name, text) == [name |-> name, text |-> text]

HeadingNames == <<"h1", "h2", "h3", "h4", "h5", "h6">>

\* 0, or the level of the heading tag
HeadingLevel(name) ==
    IF \E l \in 1..Len(HeadingNames) : HeadingNames[l] = name
    THEN CHOOSE l \in 1..Len(HeadingNames) : HeadingNames[l] = name
    ELSE 0

\* "#" * n
Hashes(n) == [i \in 1..n |-> 35]

\* "\n\n".join(lines)
RECURSIVE JoinLines(_)
JoinLines(lines) ==
    IF lines = <<>> THEN <<>>
    ELSE IF Len(lines) = 1 THEN lines[1]
    ELSE lines[1] \o <<10, 10>> \o JoinLines(Tail(lines))

WhiteSpace == {10, 32}

\* str.strip()
RECURSIVE StripText(_)
StripText(t) ==
    IF t = <<>> THEN t
    ELSE IF t[1] \in WhiteSpace THEN StripText(Tail(t))
    ELSE IF t[Len(t)] \in WhiteSpace THEN StripText(SubSeq(t, 1, Len(t) - 1))
    ELSE t

\* markdownify(html, heading_style="ATX") on these elements, stripped
Mdify(elems) ==
    LET Keep(el) == el.text # <<>> /\ (HeadingLevel(el.name) > 0 \/ el.name \in {"p", "li"})
        Line(el) == IF HeadingLevel(el.name) > 0
                    THEN Hashes(HeadingLevel(el.name)) \o <<32>> \o el.text
                    ELSE IF el.name = "li" THEN <<42, 32>> \o el.text
                    ELSE el.text
        kept == SelectSeq(elems, Keep)
    IN  StripText(JoinLines([i \in 1..Len(kept) |-> Line(kept[i])]))

\* line 93: the test that selects the heading elements
IsHeadingEl(el) == StartsWith(el.name, "h") /\ Len(el.name) = 1

\* lines 91-102: the headings/paragraphs walk; the heading branch reads
\* el.name[1] of a name of length one at line 94, which raises IndexError
Walk(elems) ==
    IF \E i \in 1..Len(elems) : IsHeadingEl(elems[i]) THEN RAISES
    ELSE LET Keep(el) == el.name \in {"p", "li"} /\ el.text # <<>>
             Line(el) == el.text
             kept == SelectSeq(elems, Keep)
    IN  StripText(JoinLines([i \in 1..Len(kept) |-> Line(kept[i])]))

\* lines 114-115: the texts of h1, h2, h3, p and li, the empty ones dropped
PlainText(elems) ==
    LET Keep(el) == el.name \in {"h1", "h2", "h3", "p", "li"} /\ el.text # <<>>
        Line(el) == el.text
        kept == SelectSeq(elems, Keep)
    IN  StripText(JoinLines([i \in 1..Len(kept) |-> Line(kept[i])]))

\* what the libraries answer on a document
OnDoc(doc, use_markdownify) ==
    [ summary |-> IF doc = <<>> THEN "empty" ELSE "frag",
      conv |-> Mdify(doc),
      walk |-> Walk(doc),
      full |-> IF use_markdownify THEN Mdify(doc) ELSE PlainText(doc) ]

\* the texts "title" and "body text" as one code point each: "T", "B"
TitleText == <<84>>
BodyText == <<66>>

\* a heading of level l followed by a paragraph
HeadingDoc(l) == <<Elem(HeadingNames[l], TitleText), Elem("p", BodyText)>>

Docs ==
    { HeadingDoc(l) : l \in 1..Len(HeadingNames) }
        \cup { <<>>, <<Elem("p", BodyText)>>, <<Elem("div", TitleText)>>,
               <<Elem("li", BodyText), Elem("p", <<>>)>>,
               <<Elem("h", TitleText), Elem("p", BodyText)>> }

DocInit ==
    /\ ProgramBoot({<<>>}, BOOLEAN)
    /\ xcall \in { [args |-> <<hint, doc>>, res |-> <<>>] : hint \in Hints, doc \in Docs }

\* the extractor is called on the bytes of the document
CallExtractorOnDoc ==
    /\ xcall.res = <<>>
    /\ xcall' = [xcall EXCEPT
                   !.res = <<to_markdown_readability(xcall.args[1], USE_MARKDOWNIFY,
                                 OnDoc(xcall.args[2], USE_MARKDOWNIFY))>>]
    /\ UNCHANGED <<urls, render_pdf, USE_MARKDOWNIFY, pc, idx, ok, fail, meta, files,
                   candidates, ci, attempt, last_exc, r, used_url, ctype, base, out,
                   title, md_text, exc, calls, last_outcome, sleeps, processed, results,
                   appended, prev>>

DocNext == CallExtractorOnDoc
DocSpec == DocInit /\ [][DocNext]_vars

\* the lines of a text
RECURSIVE TextLines(_)
TextLines(t) ==
    IF \A i \in 1..Len(t) : t[i] # 10 THEN {t}
    ELSE LET k == CHOOSE i \in 1..Len(t) : t[i] = 10 /\ \A j \in 1..(i - 1) : t[j] # 10
         IN  {SubSeq(t, 1, k - 1)} \cup TextLines(SubSeq(t, k + 1, Len(t)))

\* C13: for a document of one heading of level L with text "title" and a
\* paragraph "body text", decoded with a known encoding, the text returned
\* has the line "#" * L + " title" and the line "body text", with the
\* converter (tier 1) as well as without it (tier 2).
C13_HeadingPreserved ==
    \A l \in 1..Len(HeadingNames) :
        (Called /\ xcall.args[1] # "x-bogus" /\ xcall.args[2] = HeadingDoc(l))
            => /\ xcall.res[1].exc = None
               /\ (Hashes(l) \o <<32>> \o TitleText) \in TextLines(xcall.res[1].value)
               /\ BodyText \in TextLines(xcall.res[1].value)

-----------------------------------------------------------------------------
(* The fallback resolver: the candidate list of robust_get.                *)

U_MERGING == "https://pandas.pydata.org/docs/user_guide/merging.html"

\* a page of another host whose path names the pandas host
U_MIRROR == "https://example.org/pandas.pydata.org/10min.html"

ResolveInit == Boot({ <<u>> : u \in {U_PYTHON, U_PANDAS, U_MERGING, U_MIRROR} }, {TRUE})

\* one run over a single URL, every attempt failing in either way or not
ResolveNext == Step(Fetching)
ResolveSpec == ResolveInit /\ [][ResolveNext]_vars

\* robust_get is running, or has just returned or raised
Fetched == pc = "get" \/ pc = "got" \/ (pc = "raised" /\ calls # <<>>)

RuleHosts == {"pandas.pydata.org", "developer.mozilla.org"}

\* C14: the candidate list starts with the URL asked for, and for a URL
\* whose host is neither the pandas nor the MDN host it is exactly that
\* URL, so that every request goes to it.
C14_OnlyOriginal ==
    Fetched
        => /\ candidates[1] = Url
           /\ UrlNetloc(Url) \notin RuleHosts
                  => /\ candidates = <<Url>>
                     /\ \A k \in 1..Len(calls) : calls[k] = Url

PandasGuide == "https://pandas.pydata.org/docs/user_guide/"

\* the candidate list stated for the page <name>.html of the user guide
PandasExpected(name) ==
    << PandasGuide \o name \o ".html",
       "https://pandas.pydata.org/pandas-docs/version/stable/user_guide/" \o name \o ".html",
       "https://pandas.pydata.org/pandas-docs/stable/user_guide/" \o name \o ".html",
       "https://raw.githubusercontent.com/pandas-dev/pandas/main/doc/source/user_guide/"
           \o name \o ".rst" >>

\* C15: for https://pandas.pydata.org/docs/user_guide/<name>.html the
\* candidate list is the URL itself, the version/stable and the stable
\* alternate and the raw <name>.rst, in this order, and the requests go to
\* them in this order, MAX_RETRIES to each before the next.
C15_PandasCandidates ==
    \A name \in {"10min", "merging"} :
        (Fetched /\ Url = PandasGuide \o name \o ".html")
            => /\ candidates = PandasExpected(name)
               /\ \A k \in 1..Len(calls) :
                      calls[k] = PandasExpected(name)[((k - 1) \div MAX_RETRIES) + 1]

\* merging.html was served by the raw merging.rst after nine failures
C15_Witness ==
    /\ pc = "got"
    /\ Url = U_MERGING
    /\ Len(calls) = 3 * MAX_RETRIES + 1
    /\ used_url = PandasExpected("merging")[4]

-----------------------------------------------------------------------------
(* The schedule of the fetcher: sleeps and the order of the attempts.      *)

\* the sleeps of one exhausted candidate, with the defaults
DefaultSleeps == <<2, 4>>

\* the sleeps of n exhausted candidates
RECURSIVE SleepsOfExhausted(_)
SleepsOfExhausted(n) == IF n = 0 THEN <<>> ELSE DefaultSleeps \o SleepsOfExhausted(n - 1)

RECURSIVE Sum(_)
Sum(seq) == IF seq = <<>> THEN 0 ELSE seq[1] + Sum(Tail(seq))

\* C16: the fetcher sleeps RETRY_BACKOFF^a seconds after the a-th failed
\* attempt on a candidate for a < MAX_RETRIES (2, then 4), and neither
\* after the last failed attempt on a candidate nor after a success: the
\* sleeps so far are 2, 4 for every candidate left behind and the first
\* attempt-1 of 2, 4 for the current one; exhausting c candidates sleeps
\* c * (2 + 4) seconds.
C16_BackoffSchedule ==
    Fetched
        => /\ sleeps = SleepsOfExhausted(ci - 1) \o SubSeq(DefaultSleeps, 1, attempt - 1)
           /\ \A a \in 1..(attempt - 1) :
                  sleeps[(ci - 1) * (MAX_RETRIES - 1) + a] = RETRY_BACKOFF ^ a
           /\ pc = "raised" => Sum(sleeps) = Len(candidates) * (2 + 4)

\* the second candidate answered on its second attempt: slept 2, 4, 2
C16_Witness ==
    /\ pc = "got"
    /\ ci = 2
    /\ attempt = 2
    /\ sleeps = <<2, 4, 2>>

\* C17: the requests go to the candidates in list order, MAX_RETRIES to
\* each before the next one, and a successful request is the last one of
\* the fetch: robust_get then returns the candidate it went to, whatever
\* candidates follow it in the list.
C17_AttemptOrder ==
    /\ [](Fetched => /\ \A k \in 1..Len(calls) :
                          calls[k] = candidates[((k - 1) \div MAX_RETRIES) + 1]
                     /\ last_outcome = "ok" <=> pc = "got")
    /\ [][pc = "got" => (pc' = "dispatch" /\ calls' = <<>> /\ used_url' = Last(calls))]_vars

\* the first candidate of several failed once and then answered
C17_Witness ==
    /\ pc = "got"
    /\ Len(candidates) > 1
    /\ ci = 1
    /\ attempt = 2
    /\ calls = <<candidates[1], candidates[1]>>
    /\ used_url = candidates[1]

-----------------------------------------------------------------------------
(* The tiers of the extractor.                                              *)

\* C18: an earlier tier that raises or produces an empty text hands over
\* to the next tier, so a call of to_markdown_readability that returns
\* the empty text is one whose full-page fallback yields the empty text.
C18_EmptyOnlyIfFullPageEmpty ==
    (Called /\ xcall.res[1].exc = None /\ xcall.res[1].value = <<>>)
        => xcall.args[2].full = <<>>

-----------------------------------------------------------------------------
(* The log and the files.                                                   *)

\* C19: the file of an item is written before its record is appended: in
\* every state every record of the log names a file that exists, a record
\* is appended only when its file is already there, and after the reset at
\* the start of the run the log changes by appends only.
C19_WriteBeforeRecord ==
    /\ [](\A i \in 1..Len(meta) : meta[i].saved_as \in DOMAIN files)
    /\ [][\/ meta' = meta
          \/ pc = "start" /\ meta' = <<>>
          \/ /\ Len(meta') = Len(meta) + 1
             /\ SubSeq(meta', 1, Len(meta)) = meta
             /\ Last(meta').saved_as \in DOMAIN files
             /\ files' = files]_vars

\* a run that saved a PDF and then a page, both files on disk
C19_Witness ==
    /\ pc = "done"
    /\ Len(meta) = 2
    /\ meta[1].content_type = "pdf"
    /\ meta[2].content_type = "html"
    /\ meta[1].saved_as # meta[2].saved_as
    /\ {meta[1].saved_as, meta[2].saved_as} \subseteq DOMAIN files

-----------------------------------------------------------------------------
(* Provenance of a record.                                                  *)

\* the extension and the directory that go with a kind
ExtensionOf(kind) ==
    CASE kind = "pdf" -> ".pdf"
      [] kind = "markdown" -> ".md"
      [] kind = "rst" -> ".rst"
      [] kind = "html" -> ".html"

DirectoryOf(kind) ==
    CASE kind = "pdf" -> PDF_DIR
      [] kind \in {"markdown", "rst"} -> MD_DIR
      [] kind = "html" -> HTML_DIR

\* C20: the record of an item carries the input URL as url; its
\* downloaded_from is the candidate of that URL's list on which the
\* successful request was made; its saved_as has the base name derived
\* from the input URL, not the served one, and the extension that goes
\* with the recorded content_type.
C20_Provenance ==
    /\ pc = "got" => /\ candidates = Candidates(Url)
                     /\ used_url = candidates[ci]
                     /\ used_url = Last(calls)
    /\ Emitted
        => LET rec == Last(meta)
           IN  /\ rec.url = Url
               /\ rec.downloaded_from = used_url
               /\ \E i \in 1..Len(Candidates(Url)) : rec.downloaded_from = Candidates(Url)[i]
               /\ rec.content_type \in Kinds
               /\ rec.saved_as = DirectoryOf(rec.content_type) \o "/"
                                    \o filename_from_url(Url)
                                    \o ExtensionOf(rec.content_type)

\* the MDN page was saved from its raw Markdown source, under the name of
\* the page
C20_Witness ==
    /\ Emitted
    /\ Url = U_MDN
    /\ Last(meta).downloaded_from # Url
    /\ Last(meta).content_type = "markdown"
    /\ filename_from_url(Last(meta).downloaded_from) # filename_from_url(Url)

=============================================================================
